---- MODULE Spec2Model ----
(***************************************************************************)
(* The training loop of main.py (MAAC): run(config) drives a vectorised    *)
(* environment, a replay buffer and an AttentionSAC learner.  Every call   *)
(* run() makes on a collaborator is one step of the state machine, so the  *)
(* order of the calls is part of the behaviour.                            *)
(***************************************************************************)
EXTENDS Integers, Sequences, FiniteSets, TLC

(* ------------------------------ bounds --------------------------------- *)
MaxThreads == 3
MaxEpisodes == 3
MaxEpisodeLength == 2
MaxStepsPerUpdate == 3
MaxNumUpdates == 2
MaxBatchSize == 3
MaxSaveInterval == 2
BufferLength == 4
NAgents == 2
SchedEpisodes == 24

(* --------------------- argparse defaults (main.py) --------------------- *)
DefaultThreads == 12
DefaultEpisodeLength == 25
DefaultStepsPerUpdate == 100
DefaultNumUpdates == 4
DefaultSaveInterval == 1000

Min(a, b) == IF a < b THEN a ELSE b
Max(a, b) == IF a > b THEN a ELSE b

Agents == 1..NAgents

\* The command lines explored: every field of config that run() reads.
Configs ==
  [ n_rollout_threads : 1..MaxThreads,
    buffer_length     : {BufferLength},
    n_episodes        : 0..MaxEpisodes,
    episode_length    : (MaxEpisodeLength - 1)..MaxEpisodeLength,
    steps_per_update  : 1..MaxStepsPerUpdate,
    num_updates       : {0, MaxNumUpdates},
    batch_size        : {0, MaxBatchSize},
    save_interval     : 1..MaxSaveInterval ]

\* The scheduler scenario: the defaults with batch_size = 0.
SchedConfig ==
  [ n_rollout_threads |-> DefaultThreads,
    buffer_length     |-> BufferLength,
    n_episodes        |-> SchedEpisodes,
    episode_length    |-> DefaultEpisodeLength,
    steps_per_update  |-> DefaultStepsPerUpdate,
    num_updates       |-> DefaultNumUpdates,
    batch_size        |-> 0,
    save_interval     |-> DefaultSaveInterval ]

VARIABLES
  config,         \* the parsed arguments
  pc,             \* the statement of run() executed next
  ep_n, ep_i,     \* values the episode range has yielded; the current one
  step_n,         \* values the step range has yielded in this episode
  u_n,            \* values the update range has yielded in this burst
  t,              \* the global step counter
  obs, agent_actions, actions, next_obs, rewards, dones, sample,
                  \* locals of run()
  mode,           \* the learner's mode
  buffer,         \* the replay buffer's cursor and filled count
  env,            \* the vectorised environment
  pushed,         \* the arguments of the latest replay_buffer.push
  files,          \* the snapshots written under RUN_DIR
  log,            \* the calls made since the enclosing loop head was evaluated
  count,          \* how often each collaborator call has been made
  burstAt,        \* the values of t at which a burst fired
  ready,          \* the buffer held batch_size entries at every trigger evaluation
  scalars,        \* the (agent, episode index) keys written to the metrics sink
  fs,             \* the model directory shared by the invocations of run()
  proc            \* each invocation's position in the startup of run()

vars == << config, pc, ep_n, ep_i, step_n, u_n, t, obs, agent_actions, actions,
           next_obs, rewards, dones, sample, mode, buffer, env, pushed, files,
           log, count, burstAt, ready, scalars, fs, proc >>

startup == << fs, proc >>

runvars == << config, pc, ep_n, ep_i, step_n, u_n, t, obs, agent_actions,
             actions, next_obs, rewards, dones, sample, mode, buffer, env,
             pushed, files, log, count, burstAt, ready, scalars >>

locals == << obs, agent_actions, actions, next_obs, rewards, dones, sample >>

(* ----------------------- the external collaborators -------------------- *)
\* Values are tagged with the worker, the agent and the environment's clock
\* that produced them, so any mixing of rows is visible.
Tag(kind, i, a, k) == << kind, i, a, k >>

EnvRows(kind, n, k) == [i \in 1..n |-> [a \in Agents |-> Tag(kind, i, a, k)]]

\* SubprocVecEnv over n workers.
NewEnv(n) ==
  [ n |-> n, clock |-> 0, closed |-> FALSE,
    cur  |-> EnvRows("obs", n, 0), prev |-> EnvRows("obs", n, 0),
    recv |-> << >>,
    rew  |-> EnvRows("rew", n, 0), done |-> EnvRows("done", n, 0) ]

\* env.reset(): every worker returns a fresh observation.
env_reset(e) ==
  [e EXCEPT !.clock = @ + 1, !.cur = EnvRows("obs", e.n, e.clock + 1)]

\* env.step(acts): row i of acts goes to worker i; every worker answers.
env_step(e, acts) ==
  [e EXCEPT !.clock = @ + 1,
            !.prev  = e.cur,
            !.recv  = [i \in 1..Min(e.n, Len(acts)) |-> acts[i]],
            !.cur   = EnvRows("obs", e.n, e.clock + 1),
            !.rew   = EnvRows("rew", e.n, e.clock + 1),
            !.done  = EnvRows("done", e.n, e.clock + 1)]

\* The action the learner's policy of agent a returns for one observation.
Act(a, o) == << "act", a, o >>

\* model.step(torch_obs, explore=True): per agent, one action per row.
model_step(tobs) ==
  [a \in 1..Len(tobs) |-> [i \in 1..Len(tobs[a]) |-> Act(a, tobs[a][i])]]

\* ReplayBuffer(max_steps, ...): a ring of max_steps slots.  Each row written
\* is stamped with its insertion number (slot value 0: never written).
NewBuffer(max_steps) ==
  [ max_steps |-> max_steps, curr_i |-> 0, filled_i |-> 0, stamp |-> 0,
    data |-> [s \in 0..(max_steps - 1) |-> 0] ]

\* push of a batch of nentries rows: row j goes to slot (curr_i + j - 1) mod
\* max_steps; the cursor advances by nentries modulo max_steps and the
\* filled count by nentries, capped at max_steps.
buffer_push(b, nentries) ==
  LET Rows(s) == { j \in 1..nentries : (b.curr_i + j - 1) % b.max_steps = s }
      Last(s) == CHOOSE j \in Rows(s) : \A k \in Rows(s) : k <= j
  IN  [b EXCEPT !.curr_i   = (b.curr_i + nentries) % b.max_steps,
                !.filled_i = Min(b.filled_i + nentries, b.max_steps),
                !.stamp    = b.stamp + nentries,
                !.data     = [s \in 0..(b.max_steps - 1) |->
                                IF Rows(s) # {} THEN b.stamp + Last(s)
                                ELSE b.data[s]]]

buffer_len(b) == b.filled_i

\* get_average_rewards(window) reads the ring and leaves it as it was.
buffer_get_average_rewards(b, window) == b

(* ------------------------------ run() ---------------------------------- *)
\* Snapshot names under RUN_DIR: model.pt and incremental/model_ep<ep_i + 1>.pt
ModelPt == 0
IncrementalPt(e) == e + 1

\* range(start, stop, step): the value yielded after n earlier ones.
RangeAt(start, step, n) == start + n * step

\* A slip: the stop value included.
RangeHasInclusive(start, stop, step, n) == RangeAt(start, step, n) <= stop

RangeHas(start, stop, step, n) == RangeAt(start, step, n) < stop

\* make_parallel_env(config.env_id, max(config.n_rollout_threads, 2), run_num)
NumWorkers(c) == Max(c.n_rollout_threads, 2)

\* torch_obs: observations rearranged to be per agent.
TorchObs(o) == [a \in Agents |-> [i \in 1..Len(o) |-> o[i][a]]]

\* actions: the agents' actions rearranged to be per environment.
ActionsPerEnv(aa, c) ==
  [i \in 1..c.n_rollout_threads |-> [a \in 1..Len(aa) |-> aa[a][i]]]

\* A slip: the buffer sized by the batch size.
BufferCapacityBatch(c) == c.batch_size + 1

\* ReplayBuffer(config.buffer_length, ...)
BufferCapacity(c) == c.buffer_length

\* A slip: obs = next_obs left out.
NextCurrentObsStale(o, no) == o

\* obs = next_obs
NextCurrentObs(o, no) == no

\* A slip: the window not scaled by the number of rollout threads.
ReportWindowOneThread(c) == c.episode_length

\* The window of get_average_rewards.
ReportWindow(c) == c.episode_length * c.n_rollout_threads

\* A slip: the counter advanced by one per step instead of by the worker count.
StepIncrementOne(c) == 1

\* The amount added to t after each environment step.
StepIncrement(c) == c.n_rollout_threads

\* A slip: the boundary tested by equality, which a stride of W can step over.
TriggerExact(len, tt, c) ==
  /\ len >= c.batch_size
  /\ (tt % c.steps_per_update) = 0

\* A slip: the comparison made inclusive.
TriggerInclusive(len, tt, c) ==
  /\ len >= c.batch_size
  /\ (tt % c.steps_per_update) <= c.n_rollout_threads

\* A slip: the buffer's length not consulted.
TriggerNoLen(len, tt, c) ==
  (tt % c.steps_per_update) < c.n_rollout_threads

\* The condition guarding the update burst.
Trigger(len, tt, c) ==
  /\ len >= c.batch_size
  /\ (tt % c.steps_per_update) < c.n_rollout_threads

\* A slip: the one-based episode number of the file name used in the test.
SaveDueOneBased(e, c) == (e + 1) % c.save_interval < c.n_rollout_threads

\* The condition guarding the periodic snapshot.
SaveDue(e, c) == e % c.save_interval < c.n_rollout_threads

\* A slip: the burst entered without model.prep_training().
AfterTriggerNoPrep(fire) == IF fire THEN "update_loop" ELSE "step_loop"

\* A slip: update_all_targets dedented out of the update loop.
BurstNextOncePerBurst(p) ==
  CASE p = "sample"             -> "update_critic"
    [] p = "update_critic"      -> "update_policies"
    [] p = "update_policies"    -> "update_loop"
    [] p = "updates_done"       -> "update_all_targets"
    [] p = "update_all_targets" -> "burst_prep_rollouts"

\* A slip: the final save made only when an episode has run.
AfterEpisodesGuarded == IF ep_n = 0 THEN "env_close" ELSE "final_save"

\* The statement that follows each statement of run().
AfterTrigger(fire) == IF fire THEN "prep_training" ELSE "step_loop"
\* Inside the burst: the statement after statement p of the update loop's
\* body, and after the loop itself ("updates_done").
BurstNext(p) ==
  CASE p = "sample"             -> "update_critic"
    [] p = "update_critic"      -> "update_policies"
    [] p = "update_policies"    -> "update_all_targets"
    [] p = "update_all_targets" -> "update_loop"
    [] p = "updates_done"       -> "burst_prep_rollouts"
AfterBurst == "step_loop"
AfterEnvStep == "push"
AfterSaveCheck(due) == IF due THEN "save_prep_rollouts" ELSE "ep_loop"
AfterEpisodes == "final_save"

Call(op, arg) == << op, arg >>
Did(op, arg) == log' = Append(log, Call(op, arg))
Bump(op) == count' = [count EXCEPT ![op] = @ + 1]

Ops == { "reset", "model_step", "env_step", "push", "sample", "update_critic",
         "update_policies", "update_all_targets", "prep_training",
         "prep_rollouts", "report", "save", "burst" }

(* --------------------- run(): choosing the run index ------------------- *)
\* Directory names are sequences of characters.
RunPrefix == << "r", "u", "n" >>
DigitChars == << "0", "1", "2", "3", "4", "5", "6", "7", "8", "9" >>
IsDigit(ch) == \E d \in 1..Len(DigitChars) : DigitChars[d] = ch
DigitValue(ch) == (CHOOSE d \in 1..Len(DigitChars) : DigitChars[d] = ch) - 1

\* The entries a model directory may hold before run() starts: run1, run3,
\* run2_1, runs, run_old, logs.
NameUniverse ==
  { << "r", "u", "n", "1" >>, << "r", "u", "n", "3" >>,
    << "r", "u", "n", "2", "_", "1" >>, << "r", "u", "n", "s" >>,
    << "r", "u", "n", "_", "o", "l", "d" >>, << "l", "o", "g", "s" >> }

\* str(folder.name).startswith('run')
StartsWithRun(name) ==
  Len(name) >= Len(RunPrefix) /\ SubSeq(name, 1, Len(RunPrefix)) = RunPrefix

\* Where 'run' next occurs in name at or after position from (0: nowhere).
FindRun(name, from) ==
  LET hits == { i \in from..(Len(name) - Len(RunPrefix) + 1) :
                  SubSeq(name, i, i + Len(RunPrefix) - 1) = RunPrefix }
  IN  IF hits = {} THEN 0 ELSE CHOOSE i \in hits : \A k \in hits : i <= k

\* str(folder.name).split('run')[1] for a name that starts with 'run': the
\* text between the leading 'run' and the next 'run', or the end.
SplitRun1(name) ==
  LET nxt == FindRun(name, Len(RunPrefix) + 1)
  IN  SubSeq(name, Len(RunPrefix) + 1,
             IF nxt = 0 THEN Len(name) ELSE nxt - 1)

\* int(text) raises ValueError unless text is decimal digits, where single
\* underscores may stand between digits (the names hold no sign or blank).
PyIntOk(text) ==
  /\ Len(text) > 0
  /\ \A i \in 1..Len(text) : IsDigit(text[i]) \/ text[i] = "_"
  /\ text[1] # "_" /\ text[Len(text)] # "_"
  /\ \A i \in 1..(Len(text) - 1) : ~(text[i] = "_" /\ text[i + 1] = "_")

RECURSIVE PyInt(_)
PyInt(text) ==
  IF Len(text) = 0 THEN 0
  ELSE LET front == SubSeq(text, 1, Len(text) - 1)
           last  == text[Len(text)]
       IN  IF last = "_" THEN PyInt(front)
           ELSE 10 * PyInt(front) + DigitValue(last)

\* The listing makes the list comprehension raise ValueError.
ScanFails(listing) ==
  \E name \in listing : StartsWithRun(name) /\ ~PyIntOk(SplitRun1(name))

\* exst_run_nums (only its length and its maximum are used)
ExstRunNums(listing) ==
  { PyInt(SplitRun1(name)) : name \in { m \in listing : StartsWithRun(m) } }

SetMax(S) == CHOOSE x \in S : \A y \in S : y <= x

\* run_num = 1 if len(exst_run_nums) == 0 else (max(exst_run_nums) + 1)
RunNum(listing) ==
  IF ExstRunNums(listing) = {} THEN 1 ELSE SetMax(ExstRunNums(listing)) + 1

\* The decimal text of k, as an f-string formats it.
RECURSIVE Decimal(_)
Decimal(k) ==
  IF k < 10 THEN << DigitChars[k + 1] >>
  ELSE Decimal(k \div 10) \o << DigitChars[(k % 10) + 1] >>

\* CURR_RUN = f"run{run_num}"
CurrRun(k) == RunPrefix \o Decimal(k)

\* A slip: os.makedirs(LOG_DIR, exist_ok=True)
LogDirExistOkTrue == TRUE

\* os.makedirs(LOG_DIR): exist_ok is left at its default.
LogDirExistOk == FALSE

\* A slip: the scan repeated when the log directory exists.
AfterMakedirsRetry(failed) == IF failed THEN "exists" ELSE "construct"

\* FileExistsError leaves run(); otherwise the SummaryWriter comes next.
AfterMakedirs(failed) == IF failed THEN "aborted" ELSE "construct"

\* The invocations of run() on one env_id/model_name.
Procs == {1, 2}

\* An invocation that has not executed anything yet.
NewProc ==
  [ pc |-> "exists", run_num |-> 1, missing |-> FALSE, listing |-> {},
    scans |-> 0, mkdirs |-> 0, failed |-> FALSE, constructed |-> FALSE,
    after |-> {} ]

\* The invocations that have their log directory.
Started ==
  { q \in Procs : proc[q].pc \in {"construct", "train", "done"} }

\* A model directory: whether it exists, its entries, the run directories
\* that hold a logs directory, and who wrote under which run directory
\* (writer 0: before any of the invocations).
FsOf(exists, entries) ==
  [ exists  |-> exists,
    entries |-> entries,
    logs    |-> { n \in entries : StartsWithRun(n) },
    writes  |-> { << n, 0 >> : n \in { m \in entries : StartsWithRun(m) } } ]

InitialFs ==
  { FsOf(FALSE, {}) } \cup { FsOf(TRUE, L) : L \in SUBSET NameUniverse }

\* MODEL_DIR.exists(), and run_num = 1 when it does not
ExistsCheck(p) ==
  /\ proc[p].pc = "exists"
  /\ proc' = [proc EXCEPT
       ![p].pc      = IF fs.exists THEN "listdir" ELSE "makedirs",
       ![p].missing = ~fs.exists,
       ![p].run_num = 1,
       ![p].scans   = @ + 1,
       ![p].after   = IF proc[p].scans = 0 THEN Started ELSE @]
  /\ UNCHANGED << fs, runvars >>

\* exst_run_nums over MODEL_DIR.iterdir(), then run_num
ListDir(p) ==
  /\ proc[p].pc = "listdir"
  /\ proc' = [proc EXCEPT
       ![p].listing = fs.entries,
       ![p].pc      = IF ScanFails(fs.entries) THEN "crashed" ELSE "makedirs",
       ![p].run_num = IF ScanFails(fs.entries) THEN @
                      ELSE RunNum(fs.entries)]
  /\ UNCHANGED << fs, runvars >>

\* os.makedirs(LOG_DIR), first part: MODEL_DIR and RUN_DIR are created
\* unless they exist.
MakeRunDir(p) ==
  /\ proc[p].pc = "makedirs"
  /\ fs' = [fs EXCEPT !.exists = TRUE,
                      !.entries = @ \cup {CurrRun(proc[p].run_num)}]
  /\ proc' = [proc EXCEPT ![p].pc = "mkdir_logs"]
  /\ UNCHANGED runvars

\* os.makedirs(LOG_DIR), last part: mkdir of LOG_DIR itself, which raises
\* FileExistsError when it exists.
MakeLogDir(p) ==
  /\ proc[p].pc = "mkdir_logs"
  /\ LET name   == CurrRun(proc[p].run_num)
         failed == name \in fs.logs /\ ~LogDirExistOk
     IN  /\ fs' = [fs EXCEPT !.logs = @ \cup {name}]
         /\ proc' = [proc EXCEPT ![p].pc     = AfterMakedirs(failed),
                                 ![p].mkdirs = @ + 1,
                                 ![p].failed = @ \/ failed]
  /\ UNCHANGED runvars

\* SummaryWriter, the seeds, make_parallel_env, AttentionSAC.init_from_env
\* and ReplayBuffer
Construct(p) ==
  /\ proc[p].pc = "construct"
  /\ proc' = [proc EXCEPT ![p].pc = "train", ![p].constructed = TRUE]
  /\ UNCHANGED << fs, runvars >>

\* The episode loop and the shutdown, which write the snapshots under
\* RUN_DIR.
Train(p) ==
  /\ proc[p].pc = "train"
  /\ fs' = [fs EXCEPT !.writes = @ \cup {<< CurrRun(proc[p].run_num), p >>}]
  /\ proc' = [proc EXCEPT ![p].pc = "done"]
  /\ UNCHANGED runvars

InitLocals ==
  /\ obs = << >> /\ agent_actions = << >> /\ actions = << >>
  /\ next_obs = << >> /\ rewards = << >> /\ dones = << >> /\ sample = 0

\* The variables of the training loop, with run() at statement at.
RunVars(c, at) ==
  /\ config = c
  /\ pc = at
  /\ ep_n = 0 /\ ep_i = 0 /\ step_n = 0 /\ u_n = 0
  /\ t = 0
  /\ InitLocals
  /\ mode \in {"Inference", "Training"}
  /\ buffer = NewBuffer(BufferCapacity(c))
  /\ env = NewEnv(NumWorkers(c))
  /\ pushed = << >>
  /\ files = {}
  /\ log = << >>
  /\ count = [o \in Ops |-> 0]
  /\ burstAt = {}
  /\ ready = TRUE
  /\ scalars = {}

\* The state when the episode loop is reached (t = 0): the first invocation
\* on a missing model directory has created run1/logs.
InitWith(c) ==
  /\ RunVars(c, "ep_loop")
  /\ fs = [FsOf(TRUE, {CurrRun(1)}) EXCEPT !.writes = {}]
  /\ proc = [p \in Procs |->
              IF p = 1
                THEN [NewProc EXCEPT !.pc = "train", !.missing = TRUE,
                                     !.scans = 1, !.mkdirs = 1,
                                     !.constructed = TRUE]
                ELSE [NewProc EXCEPT !.pc = "idle"]]

Init == \E c \in Configs : InitWith(c)

InitSched == InitWith(SchedConfig)

\* for ep_i in range(0, config.n_episodes, config.n_rollout_threads)
EpisodeLoop ==
  /\ pc = "ep_loop"
  /\ IF RangeHas(0, config.n_episodes, config.n_rollout_threads, ep_n)
       THEN /\ ep_i' = RangeAt(0, config.n_rollout_threads, ep_n)
            /\ ep_n' = ep_n + 1
            /\ pc' = "reset"
       ELSE /\ pc' = AfterEpisodes
            /\ UNCHANGED << ep_i, ep_n >>
  /\ log' = << >>
  /\ UNCHANGED << startup, scalars,
                  config, step_n, u_n, t, locals, mode, buffer, env, pushed,
                  files, count, burstAt, ready >>

\* obs = env.reset()
Reset ==
  /\ pc = "reset"
  /\ env' = env_reset(env)
  /\ obs' = env'.cur
  /\ Did("reset", 0) /\ Bump("reset")
  /\ pc' = "prep_rollouts"
  /\ UNCHANGED << startup, scalars,
                  config, ep_n, ep_i, step_n, u_n, t, agent_actions, actions,
                  next_obs, rewards, dones, sample, mode, buffer, pushed, files,
                  burstAt, ready >>

\* model.prep_rollouts() at the head of the episode
PrepRollouts ==
  /\ pc = "prep_rollouts"
  /\ mode' = "Inference"
  /\ step_n' = 0
  /\ Did("prep_rollouts", 0) /\ Bump("prep_rollouts")
  /\ pc' = "step_loop"
  /\ UNCHANGED << startup, scalars,
                  config, ep_n, ep_i, u_n, t, locals, buffer, env, pushed,
                  files, burstAt, ready >>

\* for _ in range(config.episode_length)
StepLoop ==
  /\ pc = "step_loop"
  /\ IF RangeHas(0, config.episode_length, 1, step_n)
       THEN /\ step_n' = step_n + 1
            /\ pc' = "model_step"
       ELSE /\ pc' = "report"
            /\ UNCHANGED step_n
  /\ log' = << >>
  /\ UNCHANGED << startup, scalars,
                  config, ep_n, ep_i, u_n, t, locals, mode, buffer, env,
                  pushed, files, count, burstAt, ready >>

\* torch_obs, model.step(torch_obs, explore=True), agent_actions, actions
ModelStep ==
  /\ pc = "model_step"
  /\ agent_actions' = model_step(TorchObs(obs))
  /\ actions' = ActionsPerEnv(agent_actions', config)
  /\ Did("model_step", 0) /\ Bump("model_step")
  /\ pc' = "env_step"
  /\ UNCHANGED << startup, scalars,
                  config, ep_n, ep_i, step_n, u_n, t, obs, next_obs, rewards,
                  dones, sample, mode, buffer, env, pushed, files, burstAt,
                  ready >>

\* next_obs, rewards, dones, infos = env.step(actions)
EnvStep ==
  /\ pc = "env_step"
  /\ env' = env_step(env, actions)
  /\ next_obs' = env'.cur
  /\ rewards' = env'.rew
  /\ dones' = env'.done
  /\ Did("env_step", Len(actions)) /\ Bump("env_step")
  /\ pc' = AfterEnvStep
  /\ UNCHANGED << startup, scalars,
                  config, ep_n, ep_i, step_n, u_n, t, obs, agent_actions,
                  actions, sample, mode, buffer, pushed, files, burstAt, ready >>

\* replay_buffer.push(obs, agent_actions, rewards, next_obs, dones)
Push ==
  /\ pc = "push"
  /\ pushed' = [ obs |-> obs, acs |-> agent_actions, rews |-> rewards,
                 next_obs |-> next_obs, dones |-> dones ]
  /\ buffer' = buffer_push(buffer, Len(obs))
  /\ Did("push", Len(obs)) /\ Bump("push")
  /\ pc' = "advance_obs"
  /\ UNCHANGED << startup, scalars,
                  config, ep_n, ep_i, step_n, u_n, t, locals, mode, env,
                  files, burstAt, ready >>

\* obs = next_obs
AdvanceObs ==
  /\ pc = "advance_obs"
  /\ obs' = NextCurrentObs(obs, next_obs)
  /\ Did("obs_next", 0)
  /\ pc' = "advance_t"
  /\ UNCHANGED << startup, scalars,
                  config, ep_n, ep_i, step_n, u_n, t, agent_actions, actions,
                  next_obs, rewards, dones, sample, mode, buffer, env, pushed,
                  files, count, burstAt, ready >>

\* t += config.n_rollout_threads
AdvanceT ==
  /\ pc = "advance_t"
  /\ t' = t + StepIncrement(config)
  /\ Did("t_add", StepIncrement(config))
  /\ pc' = "trigger"
  /\ UNCHANGED << startup, scalars,
                  config, ep_n, ep_i, step_n, u_n, locals, mode, buffer, env,
                  pushed, files, count, burstAt, ready >>

\* if len(replay_buffer) >= config.batch_size and (t % steps_per_update) < W
TriggerEval ==
  /\ pc = "trigger"
  /\ LET fire == Trigger(buffer_len(buffer), t, config)
     IN  /\ pc' = AfterTrigger(fire)
         /\ burstAt' = IF fire THEN burstAt \cup {t} ELSE burstAt
         /\ count' = IF fire THEN [count EXCEPT !["burst"] = @ + 1] ELSE count
  /\ ready' = (ready /\ buffer_len(buffer) >= config.batch_size)
  /\ Did("trigger", t)
  /\ UNCHANGED << startup, scalars,
                  config, ep_n, ep_i, step_n, u_n, t, locals, mode, buffer,
                  env, pushed, files >>

\* model.prep_training()
PrepTraining ==
  /\ pc = "prep_training"
  /\ mode' = "Training"
  /\ u_n' = 0
  /\ Did("prep_training", 0) /\ Bump("prep_training")
  /\ pc' = "update_loop"
  /\ UNCHANGED << startup, scalars,
                  config, ep_n, ep_i, step_n, t, locals, buffer, env, pushed,
                  files, burstAt, ready >>

\* for _ in range(config.num_updates)
UpdateLoop ==
  /\ pc = "update_loop"
  /\ IF RangeHas(0, config.num_updates, 1, u_n)
       THEN /\ u_n' = u_n + 1
            /\ pc' = "sample"
       ELSE /\ pc' = BurstNext("updates_done")
            /\ UNCHANGED u_n
  /\ UNCHANGED << startup, scalars,
                  config, ep_n, ep_i, step_n, t, locals, mode, buffer, env,
                  pushed, files, log, count, burstAt, ready >>

\* sample = replay_buffer.sample(config.batch_size)
Sample ==
  /\ pc = "sample"
  /\ sample' = count["sample"] + 1
  /\ Did("sample", sample') /\ Bump("sample")
  /\ pc' = BurstNext("sample")
  /\ UNCHANGED << startup, scalars,
                  config, ep_n, ep_i, step_n, u_n, t, obs, agent_actions,
                  actions, next_obs, rewards, dones, mode, buffer, env, pushed,
                  files, burstAt, ready >>

\* model.update_critic(sample, logger=logger)
UpdateCritic ==
  /\ pc = "update_critic"
  /\ Did("update_critic", sample) /\ Bump("update_critic")
  /\ pc' = BurstNext("update_critic")
  /\ UNCHANGED << startup, scalars,
                  config, ep_n, ep_i, step_n, u_n, t, locals, mode, buffer,
                  env, pushed, files, burstAt, ready >>

\* model.update_policies(sample, logger=logger)
UpdatePolicies ==
  /\ pc = "update_policies"
  /\ Did("update_policies", sample) /\ Bump("update_policies")
  /\ pc' = BurstNext("update_policies")
  /\ UNCHANGED << startup, scalars,
                  config, ep_n, ep_i, step_n, u_n, t, locals, mode, buffer,
                  env, pushed, files, burstAt, ready >>

\* model.update_all_targets()
UpdateAllTargets ==
  /\ pc = "update_all_targets"
  /\ Did("update_all_targets", 0) /\ Bump("update_all_targets")
  /\ pc' = BurstNext("update_all_targets")
  /\ UNCHANGED << startup, scalars,
                  config, ep_n, ep_i, step_n, u_n, t, locals, mode, buffer,
                  env, pushed, files, burstAt, ready >>

\* model.prep_rollouts() closing the burst
BurstPrepRollouts ==
  /\ pc = "burst_prep_rollouts"
  /\ mode' = "Inference"
  /\ Did("prep_rollouts", 0) /\ Bump("prep_rollouts")
  /\ pc' = AfterBurst
  /\ UNCHANGED << startup, scalars,
                  config, ep_n, ep_i, step_n, u_n, t, locals, buffer, env,
                  pushed, files, burstAt, ready >>

\* ep_rews = replay_buffer.get_average_rewards(...); logger.add_scalar(...)
Report ==
  /\ pc = "report"
  /\ buffer' = buffer_get_average_rewards(buffer, ReportWindow(config))
  /\ scalars' = scalars \cup { << a, ep_i >> : a \in Agents }
  /\ Did("report", ReportWindow(config))
  /\ Bump("report")
  /\ pc' = "save_check"
  /\ UNCHANGED << startup, config, ep_n, ep_i, step_n, u_n, t, locals, mode,
                  env, pushed, files, burstAt, ready >>

\* if ep_i % config.save_interval < config.n_rollout_threads
SaveCheck ==
  /\ pc = "save_check"
  /\ pc' = AfterSaveCheck(SaveDue(ep_i, config))
  /\ UNCHANGED << startup, scalars,
                  config, ep_n, ep_i, step_n, u_n, t, locals, mode, buffer,
                  env, pushed, files, log, count, burstAt, ready >>

\* model.prep_rollouts(); os.makedirs(RUN_DIR / 'incremental', exist_ok=True)
SavePrepRollouts ==
  /\ pc = "save_prep_rollouts"
  /\ mode' = "Inference"
  /\ Did("prep_rollouts", 0) /\ Bump("prep_rollouts")
  /\ pc' = "save_incremental"
  /\ UNCHANGED << startup, scalars,
                  config, ep_n, ep_i, step_n, u_n, t, locals, buffer, env,
                  pushed, files, burstAt, ready >>

\* model.save(RUN_DIR / 'incremental' / f"model_ep{ep_i + 1}.pt")
SaveIncremental ==
  /\ pc = "save_incremental"
  /\ files' = files \cup {IncrementalPt(ep_i)}
  /\ Did("save", IncrementalPt(ep_i)) /\ Bump("save")
  /\ pc' = "save_canonical"
  /\ UNCHANGED << startup, scalars,
                  config, ep_n, ep_i, step_n, u_n, t, locals, mode, buffer,
                  env, pushed, burstAt, ready >>

\* model.save(RUN_DIR / 'model.pt') inside the episode loop
SaveCanonical ==
  /\ pc = "save_canonical"
  /\ files' = files \cup {ModelPt}
  /\ Did("save", ModelPt) /\ Bump("save")
  /\ pc' = "ep_loop"
  /\ UNCHANGED << startup, scalars,
                  config, ep_n, ep_i, step_n, u_n, t, locals, mode, buffer,
                  env, pushed, burstAt, ready >>

\* model.save(RUN_DIR / 'model.pt') after the episode loop
FinalSave ==
  /\ pc = "final_save"
  /\ files' = files \cup {ModelPt}
  /\ Did("save", ModelPt) /\ Bump("save")
  /\ pc' = "env_close"
  /\ UNCHANGED << startup, scalars,
                  config, ep_n, ep_i, step_n, u_n, t, locals, mode, buffer,
                  env, pushed, burstAt, ready >>

\* env.close()
EnvClose ==
  /\ pc = "env_close"
  /\ env' = [env EXCEPT !.closed = TRUE]
  /\ Did("env_close", 0)
  /\ pc' = "logger_close"
  /\ UNCHANGED << startup, scalars,
                  config, ep_n, ep_i, step_n, u_n, t, locals, mode, buffer,
                  pushed, files, count, burstAt, ready >>

\* logger.export_scalars_to_json(...); logger.close()
LoggerClose ==
  /\ pc = "logger_close"
  /\ Did("logger_close", 0)
  /\ pc' = "done"
  /\ UNCHANGED << startup, scalars,
                  config, ep_n, ep_i, step_n, u_n, t, locals, mode, buffer,
                  env, pushed, files, count, burstAt, ready >>

Next ==
  \/ EpisodeLoop \/ Reset \/ PrepRollouts \/ StepLoop \/ ModelStep \/ EnvStep
  \/ Push \/ AdvanceObs \/ AdvanceT \/ TriggerEval \/ PrepTraining
  \/ UpdateLoop \/ Sample \/ UpdateCritic \/ UpdatePolicies
  \/ UpdateAllTargets \/ BurstPrepRollouts \/ Report \/ SaveCheck
  \/ SavePrepRollouts \/ SaveIncremental \/ SaveCanonical \/ FinalSave
  \/ EnvClose \/ LoggerClose

Spec == Init /\ [][Next]_vars

SpecSched == InitSched /\ [][Next]_vars

\* Startup: two invocations of run() on any initial model directory.
InitStartup ==
  /\ RunVars(SchedConfig, "startup")
  /\ fs \in InitialFs
  /\ proc = [p \in Procs |-> NewProc]

NextStartup ==
  \/ \E p \in Procs : ExistsCheck(p)
  \/ \E p \in Procs : ListDir(p)
  \/ \E p \in Procs : MakeRunDir(p)
  \/ \E p \in Procs : MakeLogDir(p)
  \/ \E p \in Procs : Construct(p)
  \/ \E p \in Procs : Train(p)

SpecStartup == InitStartup /\ [][NextStartup]_vars

\* The training loop under the assumption that every call returns.
SpecLive == Init /\ [][Next]_vars /\ WF_vars(Next)

(* ------------------------- reading the history ------------------------- *)
W == config.n_rollout_threads

IsPrefix(p, q) == Len(p) <= Len(q) /\ SubSeq(q, 1, Len(p)) = p

OpNames(l) == [j \in 1..Len(l) |-> l[j][1]]

\* The calls of one simulation step up to the trigger evaluation.
StepOps == << "model_step", "env_step", "push", "obs_next", "t_add", "trigger" >>

\* log holds a simulation step whose trigger has been evaluated.
StepEvaluated == Len(log) >= Len(StepOps) /\ log[Len(StepOps)][1] = "trigger"

\* What has been called since that evaluation.
SinceTrigger == SubSeq(log, Len(StepOps) + 1, Len(log))

InBurst == pc \in { "prep_training", "update_loop", "sample", "update_critic",
                    "update_policies", "update_all_targets",
                    "burst_prep_rollouts" }

\* The greatest value of t at which the trigger has been evaluated.
LastEval == IF pc = "trigger" THEN t - W ELSE t

(* ------------------------------- C1 ------------------------------------ *)
\* A burst of n updates whose first sampled batch is number first.
BurstCalls(first, n) ==
  [j \in 1..(4 * n + 2) |->
     IF j = 1 THEN Call("prep_training", 0)
     ELSE IF j = 4 * n + 2 THEN Call("prep_rollouts", 0)
     ELSE LET k == first + ((j - 2) \div 4)
              r == (j - 2) % 4
          IN  CASE r = 0 -> Call("sample", k)
                [] r = 1 -> Call("update_critic", k)
                [] r = 2 -> Call("update_policies", k)
                [] r = 3 -> Call("update_all_targets", 0)]

\* C1: every update burst is prep_training, then num_updates repetitions of
\* (sample, update_critic, update_policies, update_all_targets) on the same
\* sampled batch, then prep_rollouts, with no other call in between; so the
\* number of update_all_targets calls equals the number of sample calls
\* (one per sampled batch, num_updates per burst).
C1_BurstSequence ==
  LET n        == config.num_updates
      expected == BurstCalls(n * (count["burst"] - 1) + 1, n)
  IN  /\ InBurst =>
           /\ StepEvaluated
           /\ IsPrefix(SinceTrigger, expected)
           /\ Len(SinceTrigger) < Len(expected)
      /\ (pc = "step_loop" /\ StepEvaluated) =>
           (SinceTrigger = << >> \/ SinceTrigger = expected)
      /\ ~InBurst =>
           /\ count["update_all_targets"] = count["sample"]
           /\ count["sample"] = n * count["burst"]
           /\ count["update_critic"] = count["sample"]
           /\ count["update_policies"] = count["sample"]
           /\ count["prep_training"] = count["burst"]
      /\ InBurst => count["sample"] - count["update_all_targets"] \in {0, 1}

\* A burst of at least two updates has just been closed by prep_rollouts.
C1_Witness ==
  /\ pc = "step_loop" /\ StepEvaluated
  /\ config.num_updates >= 2
  /\ Len(SinceTrigger) = 4 * config.num_updates + 2
  /\ count["burst"] >= 2

(* ------------------------------- C2 ------------------------------------ *)
\* The values of t at which the trigger has been evaluated.
Evaluated == { k * W : k \in 1..(LastEval \div W) }

\* The step that brought the counter to s passed the boundary b.
Crosses(s, b) == s - W < b /\ b <= s

Boundaries(upto) ==
  { k * config.steps_per_update : k \in 1..(upto \div config.steps_per_update) }

\* C2: while the buffer has been ready at every evaluation, each boundary
\* k * steps_per_update passed by t has exactly one evaluated step at which
\* a burst fired, and no burst fired at a step that passed no boundary.
C2_OncePerCrossing ==
  ready =>
    /\ burstAt \subseteq Evaluated
    /\ \A b \in Boundaries(LastEval) :
         Cardinality({ s \in burstAt : Crosses(s, b) }) = 1
    /\ \A s \in burstAt : \E b \in Boundaries(s) : Crosses(s, b)
    /\ \A s \in Evaluated :
         (\E b \in Boundaries(s) : Crosses(s, b)) => s \in burstAt

\* W exceeds steps_per_update without being a multiple of it, and two
\* steps have fired.
C2_Witness ==
  /\ ready
  /\ W > config.steps_per_update
  /\ W % config.steps_per_update # 0
  /\ Cardinality(burstAt) >= 2
  /\ pc = "step_loop"

(* ------------------------------- C3 ------------------------------------ *)
\* The first multiple of the default worker count at or above b.
FirstStepAtOrAbove(b) ==
  ((b + DefaultThreads - 1) \div DefaultThreads) * DefaultThreads

\* The step counts at or above the boundaries 100 * n, n >= from, up to upto.
BoundarySteps(from, upto) ==
  { s \in { FirstStepAtOrAbove(DefaultStepsPerUpdate * n) :
              n \in from..(upto \div DefaultStepsPerUpdate) } : s <= upto }

\* C3 as stated: with steps_per_update = 100, W = 12 and batch_size = 0 a
\* finished run has fired a burst exactly at the first multiple of 12 at or
\* above each boundary 100 * n for n = 0, 1, 2, ... (t = 0, 108, 204, ...).
C3_FiresFromZero ==
  pc = "done" => burstAt = BoundarySteps(0, t)

\* C3 (amended): the bursts fire exactly at the first multiple of 12 at or
\* above each boundary 100 * n for n = 1, 2, ... (t = 108, 204, 300, ...);
\* none fires at t = 0, where the trigger is never evaluated.
C3_FiresFromFirstBoundary ==
  /\ burstAt = BoundarySteps(1, LastEval)
  /\ 0 \notin burstAt
  /\ \A s \in burstAt : s % DefaultThreads = 0 /\ s >= DefaultThreads

\* The run is over and has fired at 108, 204, 300 and later boundaries.
C3_Witness ==
  /\ pc = "done"
  /\ {108, 204, 300} \subseteq burstAt
  /\ \A s \in burstAt : s >= 108
  /\ Cardinality(burstAt) = t \div DefaultStepsPerUpdate

(* ------------------------------- C4 ------------------------------------ *)
\* C4: replay_buffer.sample is called only with filled count >= batch_size
\* and > 0 and after this simulation step's push; no burst is in progress
\* while len(replay_buffer) < batch_size, whatever t is, batch_size = 0
\* included.
C4_SampleAfterPush ==
  /\ pc = "sample" =>
       /\ buffer.filled_i >= config.batch_size
       /\ buffer.filled_i > 0
       /\ StepEvaluated
       /\ log[3] = Call("push", Len(pushed.obs))
       /\ count["push"] = (ep_n - 1) * config.episode_length + step_n
  /\ InBurst => buffer.filled_i >= config.batch_size
  /\ burstAt # {} => buffer.filled_i > 0

\* The first sample of a run with batch_size = 0, right after the first push.
C4_Witness ==
  /\ pc = "sample"
  /\ config.batch_size = 0
  /\ count["push"] = 1
  /\ count["sample"] = 0

(* ------------------------------- C5 ------------------------------------ *)
\* C5: update_critic, update_policies and update_all_targets are called in
\* Training mode; model.step, env.step and the saves inside the episode loop
\* are called in Inference mode.
C5_ModeDiscipline ==
  /\ pc \in {"update_critic", "update_policies", "update_all_targets"}
       => mode = "Training"
  /\ pc \in {"model_step", "env_step", "save_incremental", "save_canonical"}
       => mode = "Inference"

\* model.step is about to be called after an earlier burst.
C5_Witness ==
  /\ pc = "model_step"
  /\ count["burst"] >= 1
  /\ count["update_all_targets"] >= 1
  /\ mode = "Inference"

(* ------------------------------- C6 ------------------------------------ *)
\* How many calls of StepOps precede statement p.
StepPosition(p) ==
  CASE p = "model_step"  -> 0
    [] p = "env_step"    -> 1
    [] p = "push"        -> 2
    [] p = "advance_obs" -> 3
    [] p = "advance_t"   -> 4
    [] p = "trigger"     -> 5

StepPcs == { "model_step", "env_step", "push", "advance_obs", "advance_t",
             "trigger" }

\* C6: a simulation step is model.step on the current observations,
\* env.step on the resulting actions, push, obs := next_obs, t := t + W and
\* then the trigger evaluation, once each in that order; at every trigger
\* evaluation t = W * (number of pushes so far).
C6_StepOrder ==
  /\ pc \in StepPcs => OpNames(log) = SubSeq(StepOps, 1, StepPosition(pc))
  /\ (InBurst \/ (pc = "step_loop" /\ Len(log) > 2)) =>
       /\ OpNames(SubSeq(log, 1, Len(StepOps))) = StepOps
       /\ \A j \in (Len(StepOps) + 1)..Len(log) :
            log[j][1] \notin { StepOps[k] : k \in 1..Len(StepOps) }
  /\ pc = "env_step" =>
       \A a \in Agents : \A i \in 1..Len(obs) :
         agent_actions[a][i] = Act(a, obs[i][a])
  /\ pc = "push" => \A i \in DOMAIN env.recv : env.recv[i] = actions[i]
  /\ pc = "advance_t" => obs = next_obs /\ obs = env.cur
  /\ pc = "trigger" =>
       /\ t = W * count["push"]
       /\ log[5] = Call("t_add", W)
       /\ count["model_step"] = count["push"]
       /\ count["env_step"] = count["push"]
  /\ StepEvaluated => log[Len(StepOps)] = Call("trigger", W * count["push"])

\* The trigger is about to be evaluated for the second step of a run with
\* several workers.
C6_Witness ==
  /\ pc = "trigger"
  /\ W >= 2
  /\ count["push"] >= 2
  /\ t = W * count["push"]

(* ------------------------------- C7 ------------------------------------ *)
\* The rows handed to the workers by the latest env.step agree with the
\* learner's output, row by row and agent by agent.
RowsAligned ==
  /\ \A i \in 1..Len(actions) : \A a \in Agents :
       actions[i][a] = agent_actions[a][i]
  /\ \A i \in DOMAIN env.recv : \A a \in Agents :
       /\ env.recv[i][a] = agent_actions[a][i]
       /\ env.recv[i][a] = Act(a, env.prev[i][a])

\* The latest push holds, for worker i, what worker i observed, was handed
\* and returned.
PushAligned(i) ==
  /\ pushed.obs[i] = env.prev[i]
  /\ i \in DOMAIN env.recv
  /\ \A a \in Agents : pushed.acs[a][i] = env.recv[i][a]
  /\ pushed.rews[i] = env.rew[i]
  /\ pushed.next_obs[i] = env.cur[i]
  /\ pushed.dones[i] = env.done[i]

\* C7: on every step, for every worker i and agent a the action row handed
\* to worker i holds at position a the action the learner produced for
\* agent a from worker i's observation, and the transition pushed for
\* worker i is worker i's observation, worker i's actions and the reward,
\* next observation and terminal flag worker i returned.
C7_Alignment ==
  /\ pc \in {"push", "advance_obs"} => RowsAligned
  /\ pc = "advance_obs" =>
       /\ Len(pushed.obs) = env.n
       /\ \A i \in 1..env.n : PushAligned(i)

\* The same with at least two rollout threads configured.
C7_AlignmentFromTwoThreads == W >= 2 => C7_Alignment

(* ------------------------------- C8 ------------------------------------ *)
\* C8: for every n_rollout_threads >= 1 the number of workers run() creates
\* and steps equals the number of action rows handed to env.step, the batch
\* size of each push and the amount added to t per step.
C8_WorkerCount ==
  /\ pc \in {"env_step", "push"} => Len(actions) = env.n
  /\ pc = "advance_obs" => log[3] = Call("push", env.n)
  /\ pc = "trigger" => log[5] = Call("t_add", env.n)

\* The same with at least two rollout threads configured.
C8_WorkerCountFromTwoThreads == W >= 2 => C8_WorkerCount

(* ------------------------------- C9 ------------------------------------ *)
\* Where in log the first call of op stands (0 when there is none).
FirstCall(op) ==
  IF \E j \in 1..Len(log) : log[j][1] = op
    THEN CHOOSE j \in 1..Len(log) :
           log[j][1] = op /\ \A k \in 1..(j - 1) : log[k][1] # op
    ELSE 0

\* C9 as stated: every finished run has written model.pt after the episode
\* loop, and did so after closing the environments and the metrics sink.
C9_SaveAfterClose ==
  pc = "done" =>
    /\ FirstCall("save") > 0
    /\ FirstCall("save") > FirstCall("env_close")
    /\ FirstCall("save") > FirstCall("logger_close")

\* C9 (amended): every finished run, one of zero episodes included, has
\* written model.pt after the episode loop, and did so before closing the
\* environments and before closing the metrics sink.
C9_SaveBeforeClose ==
  /\ pc = "done" =>
       /\ log = << Call("save", ModelPt), Call("env_close", 0),
                   Call("logger_close", 0) >>
       /\ ModelPt \in files
       /\ env.closed
  /\ pc \in {"final_save", "env_close"} => ~env.closed
  /\ pc = "env_close" => log = << Call("save", ModelPt) >>

\* A run of zero episodes has finished.
C9_Witness ==
  /\ pc = "done"
  /\ config.n_episodes = 0
  /\ count["reset"] = 0
  /\ files = {ModelPt}

(* ------------------------------- C10 ----------------------------------- *)
\* The saves among the calls of log.
Saves == SelectSeq(log, LAMBDA e : e[1] = "save")

\* C10: the iteration of episode index ep_i writes model_ep<ep_i + 1>.pt and
\* then model.pt iff ep_i mod save_interval < W; the first iteration always
\* saves, and with W <= save_interval exactly one iteration saves per
\* save_interval boundary passed by ep_i.
C10_PeriodicSave ==
  (pc = "ep_loop" /\ ep_n >= 1) =>
    LET due == (ep_i % config.save_interval) < W
    IN  /\ due => /\ Saves = << Call("save", ep_i + 1), Call("save", 0) >>
                  /\ {ep_i + 1, 0} \subseteq files
        /\ ~due => Saves = << >>
        /\ ep_i = 0 => due
        /\ W <= config.save_interval =>
             count["save"] = 2 * ((ep_i \div config.save_interval) + 1)

\* A later iteration has saved at the second save_interval boundary, after
\* an iteration that did not save.
C10_Witness ==
  /\ pc = "ep_loop"
  /\ ep_i = 2
  /\ W = 1
  /\ config.save_interval = 2
  /\ count["save"] = 4
  /\ files = {0, 1, 3}

(* ------------------------------- C11 ----------------------------------- *)
\* name is 'run' followed by one or more decimal digits.
IsRunPattern(name) ==
  /\ StartsWithRun(name)
  /\ Len(name) > Len(RunPrefix)
  /\ \A i \in (Len(RunPrefix) + 1)..Len(name) : IsDigit(name[i])

RECURSIVE DigitsValue(_)
DigitsValue(digits) ==
  IF Len(digits) = 0 THEN 0
  ELSE 10 * DigitsValue(SubSeq(digits, 1, Len(digits) - 1))
         + DigitValue(digits[Len(digits)])

\* The indices N of the entries run<N> of a listing.
ExistingIndices(listing) ==
  { DigitsValue(SubSeq(name, Len(RunPrefix) + 1, Len(name))) :
      name \in { m \in listing : IsRunPattern(m) } }

\* Invocation p got past the scan with a run index.
Chosen(p) ==
  proc[p].pc \in {"makedirs", "mkdir_logs", "construct", "train", "done",
                  "aborted"}

IndexAsClaimed(p) ==
  LET existing == ExistingIndices(proc[p].listing)
  IN  /\ (proc[p].missing \/ existing = {}) => proc[p].run_num = 1
      /\ existing # {} =>
           /\ proc[p].run_num = SetMax(existing) + 1
           /\ \A k \in existing : proc[p].run_num > k
      /\ \A q \in proc[p].after : proc[p].run_num > proc[q].run_num

\* C11: the run index chosen is 1 when the model directory is missing or
\* holds no run directories, and otherwise one more than the greatest
\* existing run index, so it exceeds every existing index; an invocation
\* that starts after another has finished its startup gets a greater index.
C11_NextRunIndex == \A p \in Procs : Chosen(p) => IndexAsClaimed(p)

\* Every entry that starts with 'run' is of the form run<N>.
WellFormed(listing) ==
  \A name \in listing : StartsWithRun(name) => IsRunPattern(name)

\* The same for the listings in which every 'run...' entry is a run<N>.
C11_NextRunIndexWellFormed ==
  \A p \in Procs :
    (Chosen(p) /\ WellFormed(proc[p].listing)) => IndexAsClaimed(p)

\* {run1, run3} has yielded run4.
C11_ScenarioRun4 ==
  \E p \in Procs :
    /\ Chosen(p)
    /\ ExistingIndices(proc[p].listing) = {1, 3}
    /\ WellFormed(proc[p].listing)
    /\ CurrRun(proc[p].run_num) = << "r", "u", "n", "4" >>

(* ------------------------------- C12 ----------------------------------- *)
\* C12: an invocation whose creation of the log directory failed because
\* the directory exists has aborted, without scanning or creating again and
\* with the index it had; it has constructed no environment, learner or
\* buffer and has written nothing under any run directory.
C12_AbortOnExistingLogDir ==
  \A p \in Procs :
    proc[p].failed =>
      /\ proc[p].pc = "aborted"
      /\ proc[p].scans = 1
      /\ proc[p].mkdirs = 1
      /\ ~proc[p].constructed
      /\ CurrRun(proc[p].run_num) \in fs.logs
      /\ \A w \in fs.writes : w[2] # p

\* One invocation has aborted on the log directory of another, which has
\* trained under it.
C12_Witness ==
  \E p \in Procs : \E q \in Procs \ {p} :
    /\ proc[p].pc = "aborted" /\ proc[p].failed
    /\ proc[q].pc = "done"
    /\ proc[q].run_num = proc[p].run_num
    /\ fs.writes \cap { << CurrRun(proc[p].run_num), w >> : w \in Procs }
         = { << CurrRun(proc[q].run_num), q >> }

(* ------------------------------- C16 ----------------------------------- *)
\* C16: the scan considers only entries run<N>; entries with any other
\* name, such as 'runs' or 'run_old', neither abort startup nor change the
\* index chosen.
C16_OtherNamesIgnored ==
  \A p \in Procs :
    /\ proc[p].pc # "crashed"
    /\ (Chosen(p) /\ ~proc[p].missing) =>
         proc[p].run_num =
           RunNum({ name \in proc[p].listing : IsRunPattern(name) })

\* The same for the listings in which every 'run...' entry is a run<N>.
C16_OtherNamesIgnoredWellFormed ==
  \A p \in Procs :
    WellFormed(proc[p].listing) =>
      /\ proc[p].pc # "crashed"
      /\ (Chosen(p) /\ ~proc[p].missing) =>
           proc[p].run_num =
             RunNum({ name \in proc[p].listing : IsRunPattern(name) })

(* ------------------------------- C17 ----------------------------------- *)
\* C17: whatever the interleaving of two invocations, no two of them get
\* past startup with the same run index, an invocation that finds the log
\* directory of its index aborts, and no run directory is written by two
\* invocations or by an invocation and an earlier run.
C17_OneRunPerDirectory ==
  /\ \A p \in Started : \A q \in Started \ {p} :
       proc[p].run_num # proc[q].run_num
  /\ \A p \in Procs : \A q \in Procs \ {p} :
       ( /\ proc[p].run_num = proc[q].run_num
         /\ proc[p].mkdirs = 1 /\ proc[q].mkdirs = 1 ) =>
           (proc[p].pc = "aborted") # (proc[q].pc = "aborted")
  /\ \A v \in fs.writes : \A w \in fs.writes :
       v[1] = w[1] => v[2] = w[2]

\* Both invocations scanned before either created its directory and chose
\* the same index; one has aborted and the other has trained.
C17_Witness ==
  \E p \in Procs : \E q \in Procs \ {p} :
    /\ proc[p].after = {} /\ proc[q].after = {}
    /\ proc[p].run_num = proc[q].run_num
    /\ proc[p].pc = "aborted"
    /\ proc[q].pc = "done"

(* ------------------------------- C13 ----------------------------------- *)
\* The statements of an iteration that precede its report.
BeforeReport ==
  pc \in StepPcs \/ InBurst
    \/ pc \in {"reset", "prep_rollouts", "step_loop", "report"}

\* The iterations whose report has been made.
Reported == IF BeforeReport THEN ep_n - 1 ELSE ep_n

ReportPlaced ==
  /\ count["report"] = Reported
  /\ scalars = { << a, k * W >> : a \in Agents, k \in 0..(Reported - 1) }
  /\ pc = "report" =>
       /\ log = << >>
       /\ step_n = config.episode_length
       /\ count["push"] = ep_n * config.episode_length
  /\ pc = "save_check" =>
       log = << Call("report", config.episode_length * W) >>

ReportFrame ==
  pc = "report" =>
    /\ pc' = "save_check"
    /\ t' = t /\ mode' = mode /\ ep_i' = ep_i /\ config' = config
    /\ buffer'.curr_i = buffer.curr_i
    /\ buffer'.filled_i = buffer.filled_i
    /\ buffer' = buffer
    /\ files' = files /\ burstAt' = burstAt /\ obs' = obs

\* C13: the windowed reward report is made once per iteration, after the
\* last step and its burst and before the checkpoint decision, with window
\* episode_length * n_rollout_threads and keyed by agent and ep_i; it leaves
\* t, the buffer's cursor and filled count, the learner's mode and what the
\* later trigger and save decisions read as they were.
C13_ReportOnce == []ReportPlaced /\ [][ReportFrame]_vars

\* The second iteration of a run with several workers has reported.
C13_Witness ==
  /\ pc = "save_check"
  /\ W >= 2
  /\ ep_n = 2
  /\ count["burst"] >= 1
  /\ scalars = { << a, e >> : a \in Agents, e \in {0, W} }

(* ------------------------------- C14 ----------------------------------- *)
\* The rows pushed so far.
TotalPushed == count["push"] * env.n

\* The insertion numbers the ring holds.
Retained ==
  { buffer.data[s] : s \in 0..(buffer.max_steps - 1) } \ {0}

\* C14: with capacity C = buffer_length, len(replay_buffer) is
\* min(rows pushed, C), the cursor is rows pushed mod C, and the rows held
\* are the latest min(rows pushed, C), each in the slot its insertion
\* number gives.
C14_RingBuffer ==
  LET C == config.buffer_length
  IN  /\ buffer.max_steps = C
      /\ buffer.filled_i = Min(TotalPushed, C)
      /\ buffer.filled_i <= C
      /\ buffer.curr_i = TotalPushed % C
      /\ Retained = (TotalPushed - Min(TotalPushed, C) + 1)..TotalPushed
      /\ \A k \in Retained : buffer.data[(k - 1) % C] = k

\* More rows than the capacity have been pushed and the cursor stands
\* inside the ring: the earliest rows are gone.
C14_Witness ==
  /\ TotalPushed > config.buffer_length
  /\ buffer.curr_i # 0
  /\ 1 \notin Retained
  /\ buffer.filled_i = config.buffer_length

(* ------------------------------- C15 ----------------------------------- *)
ObsChained ==
  /\ (pc \in {"model_step", "env_step"} /\ step_n = 1) => obs = env.cur
  /\ (pc = "push" /\ step_n = 1) => obs = env.prev
  /\ (pc = "model_step" /\ step_n = 1) =>
       /\ count["reset"] = ep_n
       /\ count["env_step"] = (ep_n - 1) * config.episode_length
  /\ (pc \in {"model_step", "env_step", "push"} /\ step_n >= 2) =>
       obs = pushed.next_obs
  /\ pc = "advance_obs" => pushed.obs = obs
  /\ (pc = "env_step" /\ step_n >= 2) =>
       \A a \in Agents : \A i \in 1..Len(obs) :
         agent_actions[a][i] = Act(a, pushed.next_obs[i][a])

ObsFrame == pc \notin {"reset", "advance_obs"} => obs' = obs

\* C15: in every episode the first observation batch pushed is the one
\* env.reset() returned, every later one pushed and fed to model.step is the
\* next-observation batch of the preceding push, and nothing but the reset
\* and obs = next_obs changes the current observation.
C15_ObservationChain == []ObsChained /\ [][ObsFrame]_vars

\* The second step of an episode is about to be pushed after a burst.
C15_Witness ==
  /\ pc = "push"
  /\ step_n = 2
  /\ count["burst"] >= 1
  /\ obs = pushed.next_obs

(* ------------------------------- C18 ----------------------------------- *)
\* ceil(n / w) for n >= 0
Iterations(n, w) == (n + w - 1) \div w

Terminated ==
  pc = "done" =>
    LET k == Iterations(config.n_episodes, W)
    IN  /\ ep_n = k
        /\ count["reset"] = k
        /\ count["push"] = k * config.episode_length
        /\ count["env_step"] = k * config.episode_length
        /\ t = k * config.episode_length * W
        /\ ModelPt \in files

\* C18: when every call returns, run() ends after ceil(n_episodes / W)
\* iterations of one reset and episode_length steps each, with
\* t = ceil(n_episodes / W) * episode_length * W; t is always a multiple of
\* W, and the final save is reached.
C18_Terminates ==
  /\ [](t % W = 0)
  /\ []Terminated
  /\ <>(pc = "done")

\* A run whose n_episodes is not a multiple of W has ended after two
\* iterations.
C18_Witness ==
  /\ pc = "done"
  /\ config.n_episodes % W # 0
  /\ ep_n = 2
  /\ t = 2 * config.episode_length * W

====
